---- MODULE Spec2Model ----
(***************************************************************************)
(* Model of the student-record manager (Excersize 3/student_manager.py):   *)
(* the flat-file record store (read_students_from_file /                   *)
(* write_students_to_file), the derived views (percentage, grade, sort,    *)
(* extremum, summary) and the handlers of StudentManagerApp: add / delete  *)
(* / update under Spec, the view handlers under SpecView, and the load /   *)
(* save round trip under SpecRT.                                           *)
(*                                                                         *)
(* The maths quiz of Excersixe 1/math quiz.py (class MathsQuiz) is         *)
(* modelled by the variable quiz and the specification SpecQuiz, the joke  *)
(* teller of Excersize 2/alexa_jokes.py (class AlexaJokesApp) by the       *)
(* variables jokes and told and the specification SpecJokes, the timed     *)
(* quiz of Excersixe 1/maths_quiz.py (module-level functions and root.after *)
(* callbacks) by the variable timed and the specification SpecTimed.       *)
(*                                                                         *)
(* Text is modelled as sequences of one-character strings, so that         *)
(* splitting on commas, stripping blanks, lower-casing and integer         *)
(* parsing/formatting are computed the way the Python code computes them.  *)
(***************************************************************************)
EXTENDS Integers, Sequences, FiniteSets, TLC

VARIABLES
    file,              \* the data file DATA_FILE: [exists, lines]
    students,          \* self.students
    display_students,  \* self.display_students
    tree,              \* the rows of self.tree
    summary,           \* what self.summary_lbl shows
    last,              \* the last handler run: [op, result, idx], idx the
                       \* position of the record it picked or added (0: none)
    steps,             \* number of add / delete / update handlers run so far
                       \* (bounded by MaxSteps)
    rt_pc,             \* round-trip harness: position
    rt_file,           \* round-trip harness: the file under test
    rt_first,          \* round-trip harness: result of the first load
    rt_second,         \* round-trip harness: result of the load after the save
    quiz,              \* the MathsQuiz object: its game state, the screen it
                       \* shows and the last message box it showed
    jokes,             \* the AlexaJokesApp object, its file, labels and buttons
    told,              \* the jokes _select_random has returned, in order
    timed              \* the timed quiz: its module globals, the screen shown
                       \* and the callbacks root.after has pending

vars == <<file, students, display_students, tree, summary, last, steps,
          rt_pc, rt_file, rt_first, rt_second, quiz, jokes, told, timed>>

appVars == <<file, students, display_students, tree, summary, last, steps>>
rtVars  == <<rt_pc, rt_file, rt_first, rt_second>>
quizVars == <<quiz>>
jokeVars == <<jokes, told>>
timedVars == <<timed>>

-----------------------------------------------------------------------------
(* Bounds of the model *)

MaxSteps == 2        \* handlers run after construction
MaxRTLines == 2      \* data lines of a file of the round-trip harness
MaxViewLines == 2    \* data lines of a file the views are run on
MaxJokeLines == 2    \* lines of a jokes file
MaxTold == 5         \* jokes told in a run of the joke teller
MaxPending == 2      \* next_question callbacks pending at a time

-----------------------------------------------------------------------------
(* Text *)

Digits == <<"0", "1", "2", "3", "4", "5", "6", "7", "8", "9">>

DigitMap == [c \in {Digits[i] : i \in 1..10} |->
                (CHOOSE i \in 1..10 : Digits[i] = c) - 1]

IsDigit(c) == c \in DOMAIN DigitMap

DigitVal(c) == DigitMap[c]

\* str.strip(): drop leading and trailing white space
RECURSIVE LStrip(_)
LStrip(s) == IF s # <<>> /\ Head(s) = " " THEN LStrip(Tail(s)) ELSE s

RECURSIVE RStrip(_)
RStrip(s) ==
    IF s # <<>> /\ s[Len(s)] = " " THEN RStrip(SubSeq(s, 1, Len(s) - 1)) ELSE s

Strip(s) == RStrip(LStrip(s))

\* str.lower()
LowerChar(c) ==
    CASE c = "A" -> "a"
      [] c = "B" -> "b"
      [] c = "C" -> "c"
      [] c = "D" -> "d"
      [] OTHER   -> c

Lower(s) == [i \in 1..Len(s) |-> LowerChar(s[i])]

\* the Python test `needle in hay` on strings
Contains(needle, hay) ==
    \E i \in 0..(Len(hay) - Len(needle)) :
        SubSeq(hay, i + 1, i + Len(needle)) = needle

\* str.split(","): always at least one part
RECURSIVE SplitComma(_, _)
SplitComma(s, cur) ==
    IF s = <<>> THEN <<cur>>
    ELSE IF Head(s) = "," THEN <<cur>> \o SplitComma(Tail(s), <<>>)
    ELSE SplitComma(Tail(s), Append(cur, Head(s)))

Split(s) == SplitComma(s, <<>>)

RECURSIVE DigitsVal(_, _)
DigitsVal(s, acc) ==
    IF s = <<>> THEN acc ELSE DigitsVal(Tail(s), acc * 10 + DigitVal(Head(s)))

NotInt == [ok |-> FALSE, val |-> 0]

\* int(s) of a string: surrounding blanks, an optional sign, one or more digits;
\* anything else raises (ok = FALSE)
PyInt(s) ==
    LET t == Strip(s)
        signed == t # <<>> /\ Head(t) \in {"+", "-"}
        body == IF signed THEN Tail(t) ELSE t
        mag == DigitsVal(body, 0)
    IN  IF body = <<>> \/ \E i \in 1..Len(body) : ~IsDigit(body[i])
        THEN NotInt
        ELSE [ok |-> TRUE, val |-> IF signed /\ Head(t) = "-" THEN 0 - mag ELSE mag]

RECURSIVE NatStr(_)
NatStr(n) ==
    IF n < 10 THEN <<Digits[n + 1]>>
    ELSE NatStr(n \div 10) \o <<Digits[(n % 10) + 1]>>

\* str(n) as used by the f-strings of write_students_to_file
IntStr(n) == IF n < 0 THEN <<"-">> \o NatStr(0 - n) ELSE NatStr(n)

-----------------------------------------------------------------------------
(* The record store *)

Student(code, name, c1, c2, c3, exam) ==
    [code |-> code, name |-> name, c1 |-> c1, c2 |-> c2, c3 |-> c3, exam |-> exam]

NoFile == [exists |-> FALSE, lines |-> <<>>]

FileOf(lines) == [exists |-> TRUE, lines |-> lines]

\* the body of the loop `for ln in lines[1:]`: the records of one line
\* (none when the line is blank, short, or has a non-integer mark)
ParseLine(ln) ==
    LET parts == [i \in 1..Len(Split(ln)) |-> Strip(Split(ln)[i])]
    IN  IF Strip(ln) = <<>> THEN <<>>
        ELSE IF Len(parts) < 6 THEN <<>>
        ELSE IF \E i \in 3..6 : ~PyInt(parts[i]).ok THEN <<>>
        ELSE << Student(parts[1], parts[2], PyInt(parts[3]).val,
                        PyInt(parts[4]).val, PyInt(parts[5]).val,
                        PyInt(parts[6]).val) >>

RECURSIVE ParseLines(_)
ParseLines(lines) ==
    IF lines = <<>> THEN <<>>
    ELSE ParseLine(Head(lines)) \o ParseLines(Tail(lines))

LoadResult(exc, msg, recs, declared) ==
    [exc |-> exc, msg |-> msg, records |-> recs, declared |-> declared]

NoLoad == LoadResult("none", "", <<>>, 0)

\* read_students_from_file(path): exc = "none" when it returns
read_students_from_file(f) ==
    IF ~f.exists
    THEN LoadResult("FileNotFoundError", "not found", <<>>, 0)
    ELSE IF f.lines = <<>>
    THEN LoadResult("ValueError", "File is empty.", <<>>, 0)
    ELSE IF ~PyInt(f.lines[1]).ok
    THEN LoadResult("ValueError", "First line must be the integer number of students.",
                    <<>>, 0)
    ELSE LoadResult("none", "", ParseLines(Tail(f.lines)), PyInt(f.lines[1]).val)

JoinComma(fields) ==
    fields[1] \o <<",">> \o fields[2] \o <<",">> \o fields[3] \o <<",">> \o
    fields[4] \o <<",">> \o fields[5] \o <<",">> \o fields[6]

\* a mutation of FormatLine: coursework 2 written from c1
FormatLineSwapped(s) ==
    JoinComma(<<s.code, s.name, IntStr(s.c1), IntStr(s.c1), IntStr(s.c3),
                IntStr(s.exam)>>)

\* the line written for one student
FormatLine(s) ==
    JoinComma(<<s.code, s.name, IntStr(s.c1), IntStr(s.c2), IntStr(s.c3),
                IntStr(s.exam)>>)

\* a mutation of write_students_to_file: the header counts one record more
write_students_stale_count(studs) ==
    FileOf(<<IntStr(Len(studs) + 1)>> \o [i \in 1..Len(studs) |-> FormatLine(studs[i])])

\* write_students_to_file(path, students): the file it leaves
write_students_to_file(studs) ==
    FileOf(<<IntStr(Len(studs))>> \o [i \in 1..Len(studs) |-> FormatLine(studs[i])])

-----------------------------------------------------------------------------
(* The derived views *)

\* compute_coursework_total(student)
compute_coursework_total(s) == s.c1 + s.c2 + s.c3

\* A percentage is the float num / den, kept as the exact fraction.  For the
\* totals of the model the float (total / 160.0 * 100.0) compares with the
\* integers 40, 50, 60, 70, 0 and 100 and with the float of another total
\* exactly as the fraction does.
Pct(num, den) == [num |-> num, den |-> den]

\* compute_overall_percentage(student): (total_course + exam) / 160.0 * 100.0
compute_overall_percentage(s) ==
    Pct((compute_coursework_total(s) + s.exam) * 100, 160)

\* percent >= k
AtLeast(percent, k) == percent.num >= k * percent.den

\* p < q
Less(p, q) == p.num * q.den < q.num * p.den

\* a mutation of compute_grade: the bound of band A is exclusive
compute_grade_exclusive(percent) ==
    IF percent.num > 70 * percent.den THEN "A"
    ELSE IF AtLeast(percent, 60) THEN "B"
    ELSE IF AtLeast(percent, 50) THEN "C"
    ELSE IF AtLeast(percent, 40) THEN "D"
    ELSE "F"

\* compute_grade(percent)
compute_grade(percent) ==
    IF AtLeast(percent, 70) THEN "A"
    ELSE IF AtLeast(percent, 60) THEN "B"
    ELSE IF AtLeast(percent, 50) THEN "C"
    ELSE IF AtLeast(percent, 40) THEN "D"
    ELSE "F"

\* _populate_tree(students): one row per student; the row keeps the numbers
\* that the code formats into the columns "x/60", "x/100" and "x.x%"
populate_tree(studs) ==
    [i \in 1..Len(studs) |->
        [code |-> studs[i].code, name |-> studs[i].name,
         coursework |-> compute_coursework_total(studs[i]),
         exam |-> studs[i].exam,
         pct |-> compute_overall_percentage(studs[i]),
         grade |-> compute_grade(compute_overall_percentage(studs[i]))]]

\* sum(compute_overall_percentage(s) for s in students), over 160
RECURSIVE SumPct(_)
SumPct(studs) ==
    IF studs = <<>> THEN 0
    ELSE compute_overall_percentage(Head(studs)).num + SumPct(Tail(studs))

SummaryOf(text, count, avg) == [text |-> text, count |-> count, avg |-> avg]

\* a mutation of update_summary: the sum is divided by one more than the count
update_summary_off_by_one(studs) ==
    IF studs = <<>>
    THEN SummaryOf("No student data available.", 0, Pct(0, 1))
    ELSE SummaryOf("Students", Len(studs), Pct(SumPct(studs), 160 * (Len(studs) + 1)))

\* _update_summary(students): the label it sets; avg is the number that the
\* code formats as "x.xx%"
update_summary(studs) ==
    IF studs = <<>>
    THEN SummaryOf("No student data available.", 0, Pct(0, 1))
    ELSE SummaryOf("Students", Len(studs), Pct(SumPct(studs), 160 * Len(studs)))

Reverse(s) == [i \in 1..Len(s) |-> s[Len(s) + 1 - i]]

\* the place of x in a list sorted so far: after every element not greater
RECURSIVE InsertSorted(_, _)
InsertSorted(sorted, x) ==
    IF sorted = <<>> THEN <<x>>
    ELSE IF Less(compute_overall_percentage(x), compute_overall_percentage(Head(sorted)))
    THEN <<x>> \o sorted
    ELSE <<Head(sorted)>> \o InsertSorted(Tail(sorted), x)

\* a stable sort by ascending percentage
RECURSIVE SortedAscending(_)
SortedAscending(studs) ==
    IF studs = <<>> THEN <<>>
    ELSE InsertSorted(SortedAscending(SubSeq(studs, 1, Len(studs) - 1)),
                      studs[Len(studs)])

\* a mutation of Sorted: the descending order is the ascending one reversed
SortedThenReversed(studs, reverse) ==
    IF reverse THEN Reverse(SortedAscending(studs)) ELSE SortedAscending(studs)

\* sorted(students, key=compute_overall_percentage, reverse=reverse): with
\* reverse the list is reversed, sorted stably and reversed again
Sorted(studs, reverse) ==
    IF reverse THEN Reverse(SortedAscending(Reverse(studs)))
    ELSE SortedAscending(studs)

\* a mutation of MaxFrom: a later record of the same percentage replaces best
RECURSIVE MaxFromLast(_, _, _)
MaxFromLast(studs, i, best) ==
    IF i > Len(studs) THEN best
    ELSE IF ~Less(compute_overall_percentage(studs[i]),
                  compute_overall_percentage(studs[best]))
    THEN MaxFromLast(studs, i + 1, i)
    ELSE MaxFromLast(studs, i + 1, best)

\* max(students, key=compute_overall_percentage) from position i on, best the
\* position of the greatest so far: only a greater record replaces it
RECURSIVE MaxFrom(_, _, _)
MaxFrom(studs, i, best) ==
    IF i > Len(studs) THEN best
    ELSE IF Less(compute_overall_percentage(studs[best]),
                 compute_overall_percentage(studs[i]))
    THEN MaxFrom(studs, i + 1, i)
    ELSE MaxFrom(studs, i + 1, best)

\* min(students, key=compute_overall_percentage): only a smaller record
\* replaces best
RECURSIVE MinFrom(_, _, _)
MinFrom(studs, i, best) ==
    IF i > Len(studs) THEN best
    ELSE IF Less(compute_overall_percentage(studs[i]),
                 compute_overall_percentage(studs[best]))
    THEN MinFrom(studs, i + 1, i)
    ELSE MinFrom(studs, i + 1, best)

-----------------------------------------------------------------------------
(* The timed maths quiz: maths_quiz.py *)

QUIZ_LENGTH == 10
SECONDS_PER_QUESTION == 12

\* the module globals after displayMenu() at start-up.  pending holds one
\* entry per next_question callback that root.after has not run yet: TRUE
\* when the callback is due before the next countdown tick (its delay of
\* 800 or 900 ms is shorter than the second between two ticks).  ticking
\* tells that a countdown callback of the screen shown is pending.  The
\* texts of the labels and the list session_scores are left out: no
\* function reads them.
NewTimed ==
    [screen |-> "menu", difficulty |-> "None", score |-> 0, current_q |-> 0,
     first_attempt |-> TRUE, num1 |-> 0, num2 |-> 0, operation |-> "+",
     time_left |-> SECONDS_PER_QUESTION, ticking |-> FALSE, pending |-> <<>>]

\* str.lstrip("-")
RECURSIVE LStripMinus(_)
LStripMinus(s) == IF s # <<>> /\ Head(s) = "-" THEN LStripMinus(Tail(s)) ELSE s

\* safe_int(value): kind "None" when it returns None, "ValueError" when
\* int(value) raises after the isdigit test has passed
safe_int(value) ==
    LET v == Strip(value)
        body == LStripMinus(v)
    IN  IF v = <<>> THEN [kind |-> "None", val |-> 0]
        ELSE IF body # <<>> /\ \A i \in 1..Len(body) : IsDigit(body[i])
        THEN IF PyInt(v).ok THEN [kind |-> "int", val |-> PyInt(v).val]
             ELSE [kind |-> "ValueError", val |-> 0]
        ELSE [kind |-> "None", val |-> 0]

\* randomInt(level): the ends of the range of the level
randomIntTimed(level) ==
    IF level = "Easy" THEN {1, 9}
    ELSE IF level = "Moderate" THEN {10, 99}
    ELSE {1000, 9999}

\* decideOperation()
decideOperationTimed == {"+", "-"}

\* time passes up to the next countdown tick, or a new screen is drawn:
\* every callback still pending is due before the tick after that
AllDue(pending) == [i \in 1..Len(pending) |-> TRUE]

\* displayResults()
displayResults(t) ==
    [t EXCEPT !.screen = "results", !.ticking = FALSE]

\* countdown(): the time-out, or one second less and the next tick
countdown(t) ==
    IF t.time_left <= 0
    THEN [t EXCEPT !.ticking = FALSE, !.pending = Append(@, FALSE)]
    ELSE [t EXCEPT !.time_left = @ - 1, !.ticking = TRUE]

\* displayProblem(), given the numbers and the operation drawn; the
\* countdown callback of the screen it clears fails on its destroyed label
\* before it changes anything
displayProblem(t, n1, n2, op) ==
    LET fresh == [t EXCEPT !.first_attempt = TRUE,
                           !.time_left = SECONDS_PER_QUESTION,
                           !.pending = AllDue(@)]
    IN  IF fresh.current_q >= QUIZ_LENGTH THEN displayResults(fresh)
        ELSE countdown([fresh EXCEPT !.screen = "problem",
                                     !.num1 = n1, !.num2 = n2, !.operation = op])

\* start_quiz(level), before the problem is drawn
start_quiz_timed(t, level) ==
    [t EXCEPT !.difficulty = level, !.score = 0, !.current_q = 0]

\* isCorrect(user_answer, correct_answer, feedback)
isCorrectTimed(t, user_answer, correct_answer) ==
    IF user_answer = correct_answer
    THEN [t EXCEPT !.score = IF t.first_attempt THEN @ + 10 ELSE @ + 5,
                   !.pending = Append(@, FALSE)]
    ELSE IF t.first_attempt
    THEN [t EXCEPT !.first_attempt = FALSE]
    ELSE [t EXCEPT !.pending = Append(@, FALSE)]

\* submit(): without a number (None, or an exception of int()) only the
\* feedback label changes
submit(t, text) ==
    LET user_val == safe_int(text)
        correct_answer == IF t.operation = "+" THEN t.num1 + t.num2
                          ELSE t.num1 - t.num2
    IN  IF user_val.kind \in {"ValueError", "None"} THEN t
        ELSE isCorrectTimed(t, user_val.val, correct_answer)

\* next_question(), before the problem is drawn
next_question(t) == [t EXCEPT !.current_q = @ + 1]

\* what the user types into the entry of the problem screen
TimedAnswerTexts ==
    LET answer == IF timed.operation = "+" THEN timed.num1 + timed.num2
                  ELSE timed.num1 - timed.num2
    IN  { IntStr(answer),
          <<" ">> \o IntStr(answer) \o <<" ">>,
          IntStr(answer + 1),
          <<>>,
          <<"x">>,
          <<"-", "-", "5">> }

\* the buttons Easy, Moderate and Advanced of the menu
StartTimed ==
    /\ timed.screen = "menu"
    /\ \E level \in {"Easy", "Moderate", "Advanced"} :
           \E n1, n2 \in randomIntTimed(level) : \E op \in decideOperationTimed :
               timed' = displayProblem(start_quiz_timed(timed, level), n1, n2, op)
    /\ UNCHANGED appVars
    /\ UNCHANGED rtVars
    /\ UNCHANGED quizVars
    /\ UNCHANGED jokeVars

\* the button Submit of the problem screen
SubmitTimed ==
    /\ timed.screen = "problem"
    /\ \E text \in TimedAnswerTexts : timed' = submit(timed, text)
    /\ Len(timed'.pending) <= MaxPending
    /\ UNCHANGED appVars
    /\ UNCHANGED rtVars
    /\ UNCHANGED quizVars
    /\ UNCHANGED jokeVars

\* root.after(1000, countdown) comes due: a second has passed, so no
\* next_question callback that was pending a second ago is still pending
CountdownTick ==
    /\ timed.screen = "problem"
    /\ timed.ticking
    /\ \A i \in 1..Len(timed.pending) : ~timed.pending[i]
    /\ timed' = countdown([timed EXCEPT !.pending = AllDue(@)])
    /\ Len(timed'.pending) <= MaxPending
    /\ UNCHANGED appVars
    /\ UNCHANGED rtVars
    /\ UNCHANGED quizVars
    /\ UNCHANGED jokeVars

\* root.after(800 or 900, next_question) comes due
NextQuestionDue ==
    /\ timed.pending # <<>>
    /\ LET t == next_question([timed EXCEPT !.pending = Tail(@)]) IN
       \E n1, n2 \in randomIntTimed(t.difficulty) : \E op \in decideOperationTimed :
           timed' = displayProblem(t, n1, n2, op)
    /\ UNCHANGED appVars
    /\ UNCHANGED rtVars
    /\ UNCHANGED quizVars
    /\ UNCHANGED jokeVars

\* displayMenu(), the button Play Again of the results screen
displayMenu ==
    /\ timed.screen = "results"
    /\ timed' = [timed EXCEPT !.screen = "menu"]
    /\ UNCHANGED appVars
    /\ UNCHANGED rtVars
    /\ UNCHANGED quizVars
    /\ UNCHANGED jokeVars

-----------------------------------------------------------------------------
(* The joke teller: class AlexaJokesApp *)

\* the position of the first "?" of a line that has one
RECURSIVE FirstMark(_, _)
FirstMark(line, i) ==
    IF line[i] = "?" THEN i ELSE FirstMark(line, i + 1)

\* the body of the loop of load_jokes: the jokes of one line (none when the
\* line is blank, has no "?", or has an empty setup or punchline)
JokeOfLine(raw) ==
    LET line == Strip(raw)
        at == FirstMark(line, 1)
        setup == Strip(SubSeq(line, 1, at - 1))
        punch == Strip(SubSeq(line, at + 1, Len(line)))
    IN  IF line = <<>> THEN <<>>
        ELSE IF ~(\E i \in 1..Len(line) : line[i] = "?") THEN <<>>
        ELSE IF setup # <<>> /\ punch # <<>>
        THEN << [setup |-> setup \o <<"?">>, punch |-> punch] >>
        ELSE <<>>

RECURSIVE JokesOfLines(_)
JokesOfLines(lines) ==
    IF lines = <<>> THEN <<>>
    ELSE JokeOfLine(Head(lines)) \o JokesOfLines(Tail(lines))

\* load_jokes(filepath), up to the shuffle: exc = "none" when it returns
load_jokes(f) ==
    IF ~f.exists THEN [exc |-> "FileNotFoundError", jokes |-> <<>>]
    ELSE IF JokesOfLines(f.lines) = <<>> THEN [exc |-> "ValueError", jokes |-> <<>>]
    ELSE [exc |-> "none", jokes |-> JokesOfLines(f.lines)]

\* random.shuffle(list): the orders it can leave
Shuffles(list) ==
    { [i \in 1..Len(list) |-> list[p[i]]] :
        p \in { q \in [1..Len(list) -> 1..Len(list)] :
                  \A i, j \in 1..Len(list) : i # j => q[i] # q[j] } }

\* the application object before AlexaJokesApp(root) is run
NoJokesApp ==
    [state |-> "off", jokes_file |-> NoFile, all_jokes |-> <<>>, remaining |-> <<>>,
     current_joke |-> <<>>, tell_btn |-> "normal", punch_btn |-> "disabled",
     next_btn |-> "disabled", setup_lbl |-> <<>>, punch_lbl |-> <<>>]

\* AlexaJokesApp.__init__ on the file f, given the order the shuffle leaves:
\* FileNotFoundError is caught, ValueError leaves __init__ and main
NewJokesApp(f, shuffled) ==
    LET loaded == load_jokes(f)
        built == [NoJokesApp EXCEPT !.jokes_file = f]
    IN  IF loaded.exc = "FileNotFoundError"
        THEN [built EXCEPT !.state = "running", !.tell_btn = "disabled",
                           !.next_btn = "disabled", !.punch_btn = "disabled"]
        ELSE IF loaded.exc = "ValueError"
        THEN [built EXCEPT !.state = "crashed"]
        ELSE [built EXCEPT !.state = "running", !.all_jokes = loaded.jokes,
                           !.remaining = shuffled]

\* a mutation of PoolBeforePop: the pool is refilled before every pick
PoolAlwaysRefilled(j) == Shuffles(j.all_jokes)

\* lines 191-194 of _select_random: the pool the joke is popped from
PoolBeforePop(j) ==
    IF j.remaining = <<>> THEN Shuffles(j.all_jokes) ELSE {j.remaining}

\* tell_joke(): pop() of an empty pool raises IndexError, which is caught
tell_joke ==
    \E pool \in PoolBeforePop(jokes) :
        IF pool = <<>>
        THEN /\ jokes' = [jokes EXCEPT !.remaining = pool]
             /\ UNCHANGED told
        ELSE /\ jokes' = [jokes EXCEPT !.remaining = SubSeq(pool, 1, Len(pool) - 1),
                                       !.current_joke = <<pool[Len(pool)]>>,
                                       !.setup_lbl = pool[Len(pool)].setup,
                                       !.punch_lbl = <<>>,
                                       !.punch_btn = "normal",
                                       !.next_btn = "normal"]
             /\ told' = Append(told, pool[Len(pool)])

\* show_punchline()
show_punchline ==
    /\ jokes' = IF jokes.current_joke = <<>> THEN jokes
                ELSE [jokes EXCEPT !.punch_lbl = jokes.current_joke[1].punch]
    /\ UNCHANGED told

\* next_joke()
next_joke == tell_joke

\* the button "Alexa tell me a Joke"
TellJoke ==
    /\ jokes.state = "running"
    /\ jokes.tell_btn = "normal"
    /\ Len(told) < MaxTold
    /\ tell_joke
    /\ UNCHANGED appVars
    /\ UNCHANGED rtVars
    /\ UNCHANGED timedVars
    /\ UNCHANGED quizVars

\* the button "Show Punchline"
ShowPunchline ==
    /\ jokes.state = "running"
    /\ jokes.punch_btn = "normal"
    /\ show_punchline
    /\ UNCHANGED appVars
    /\ UNCHANGED rtVars
    /\ UNCHANGED timedVars
    /\ UNCHANGED quizVars

\* the button "Next Joke"
NextJoke ==
    /\ jokes.state = "running"
    /\ jokes.next_btn = "normal"
    /\ Len(told) < MaxTold
    /\ next_joke
    /\ UNCHANGED appVars
    /\ UNCHANGED rtVars
    /\ UNCHANGED timedVars
    /\ UNCHANGED quizVars

\* lines of a jokes file: a joke, the same joke between blanks, a joke with
\* a second "?", another joke, a line with no "?", lines with an empty
\* setup or punchline, a blank line
JokeLines ==
    { <<"a", "?", "b">>,
      <<" ", "a", " ", "?", " ", "b", " ">>,
      <<"a", "?", "b", "?", "c">>,
      <<"c", "?", "d">>,
      <<"a", "b">>,
      <<"a", "?">>,
      <<"?", "b">>,
      <<" ">> }

-----------------------------------------------------------------------------
(* The maths quiz: class MathsQuiz *)

total_questions == 10

\* MathsQuiz.__init__: the game state, and the menu shown
NewQuiz ==
    [screen |-> "menu", difficulty |-> 0, score |-> 0, current_question |-> 0,
     first_attempt |-> TRUE, num1 |-> 0, num2 |-> 0, correct_answer |-> 0,
     operation |-> "+", message |-> "none"]

\* randomInt(level): the numbers drawn, the ends of the range of the level
randomInt(level) ==
    IF level = 1 THEN {0, 9}
    ELSE IF level = 2 THEN {10, 99}
    ELSE {1000, 9999}

\* decideOperation()
decideOperation == {"+", "-"}

\* generate_problem(), given the numbers and the operation drawn
generate_problem(q, n1, n2, op) ==
    LET swap == op = "-" /\ n1 < n2
        a == IF swap THEN n2 ELSE n1
        b == IF swap THEN n1 ELSE n2
    IN  [q EXCEPT !.num1 = a, !.num2 = b, !.operation = op,
                  !.correct_answer = IF op = "+" THEN a + b ELSE a - b,
                  !.first_attempt = TRUE]

\* a mutation of start_quiz: the score of the quiz before is kept
start_quiz_keeps_score(difficulty) ==
    \E n1 \in randomInt(difficulty), n2 \in randomInt(difficulty), op \in decideOperation :
        quiz' = [generate_problem([quiz EXCEPT !.difficulty = difficulty,
                                               !.current_question = 0,
                                               !.first_attempt = TRUE],
                                  n1, n2, op)
                 EXCEPT !.screen = "problem"]

\* start_quiz(difficulty)
start_quiz(difficulty) ==
    \E n1 \in randomInt(difficulty), n2 \in randomInt(difficulty), op \in decideOperation :
        quiz' = [generate_problem([quiz EXCEPT !.difficulty = difficulty, !.score = 0,
                                               !.current_question = 0,
                                               !.first_attempt = TRUE],
                                  n1, n2, op)
                 EXCEPT !.screen = "problem"]

\* the buttons EASY, MEDIUM, HARD of the menu
ChooseDifficulty ==
    /\ quiz.screen = "menu"
    /\ \E difficulty \in 1..3 : start_quiz(difficulty)
    /\ UNCHANGED appVars
    /\ UNCHANGED rtVars
    /\ UNCHANGED timedVars
    /\ UNCHANGED jokeVars

\* the button PLAY AGAIN of the results screen
PlayAgain ==
    /\ quiz.screen = "results"
    /\ start_quiz(quiz.difficulty)
    /\ UNCHANGED appVars
    /\ UNCHANGED rtVars
    /\ UNCHANGED timedVars
    /\ UNCHANGED jokeVars

\* the button BACK TO MENU of the results screen: displayMenu()
BackToMenu ==
    /\ quiz.screen = "results"
    /\ quiz' = [quiz EXCEPT !.screen = "menu"]
    /\ UNCHANGED appVars
    /\ UNCHANGED rtVars
    /\ UNCHANGED timedVars
    /\ UNCHANGED jokeVars

\* a mutation of Points: the second attempt scores as the first
PointsAlwaysTen(first_attempt) == 10

\* line 343: points = 10 if self.first_attempt else 5
Points(first_attempt) == IF first_attempt THEN 10 ELSE 5

\* lines 352-359 and 375-381: the question counted, then the results or the
\* next problem
NextQuestion(q) ==
    IF q.current_question + 1 >= total_questions
    THEN quiz' = [q EXCEPT !.current_question = @ + 1, !.screen = "results"]
    ELSE \E n1 \in randomInt(q.difficulty), n2 \in randomInt(q.difficulty),
            op \in decideOperation :
            quiz' = generate_problem([q EXCEPT !.current_question = @ + 1], n1, n2, op)

\* isCorrect(), given the text of the answer entry
isCorrect(typed) ==
    LET raw == Strip(typed)
        user_answer == PyInt(raw)
    IN  IF raw = <<>>
        THEN quiz' = [quiz EXCEPT !.message = "No Answer"]
        ELSE IF ~user_answer.ok
        THEN quiz' = [quiz EXCEPT !.message = "Invalid"]
        ELSE IF user_answer.val = quiz.correct_answer
        THEN NextQuestion([quiz EXCEPT !.score = @ + Points(quiz.first_attempt),
                                       !.message = IF quiz.first_attempt
                                                   THEN "Correct! +10 points."
                                                   ELSE "Correct! +5 points."])
        ELSE IF quiz.first_attempt
        THEN quiz' = [quiz EXCEPT !.first_attempt = FALSE,
                                  !.message = "Wrong! Try again."]
        ELSE NextQuestion([quiz EXCEPT !.message = "Wrong again!"])

\* what the user can type into the answer entry: the answer, the answer
\* between blanks, two wrong numbers, nothing, a blank, and two texts that are
\* no integer
AnswerTexts ==
    { IntStr(quiz.correct_answer),
      <<" ">> \o IntStr(quiz.correct_answer) \o <<" ">>,
      IntStr(quiz.correct_answer + 1),
      <<"-", "1">>,
      <<>>,
      <<" ">>,
      <<"x">>,
      <<"1", ".", "5">> }

\* the button Submit and the key Return of the problem screen
Submit ==
    /\ quiz.screen = "problem"
    /\ \E typed \in AnswerTexts : isCorrect(typed)
    /\ UNCHANGED appVars
    /\ UNCHANGED rtVars
    /\ UNCHANGED timedVars
    /\ UNCHANGED jokeVars

\* MathsQuiz(root): the student manager is not running
InitQuiz ==
    /\ quiz = NewQuiz
    /\ jokes = NoJokesApp
    /\ told = <<>>
    /\ timed = NewTimed
    /\ file = NoFile
    /\ students = <<>>
    /\ display_students = <<>>
    /\ tree = <<>>
    /\ summary = [text |-> "No student data available.", count |-> 0,
                  avg |-> [num |-> 0, den |-> 1]]
    /\ last = [op |-> "init", result |-> "none", idx |-> 0]
    /\ steps = 0
    /\ rt_pc = "off"
    /\ rt_file = NoFile
    /\ rt_first = LoadResult("none", "", <<>>, 0)
    /\ rt_second = LoadResult("none", "", <<>>, 0)

NextQuiz == ChooseDifficulty \/ PlayAgain \/ BackToMenu \/ Submit

SpecQuiz == InitQuiz /\ [][NextQuiz]_vars

-----------------------------------------------------------------------------
(* What the user can type into the dialogs.  The empty text stands for a     *)
(* dialog that was cancelled or left empty: both are falsy in `if not x`,    *)
(* and both make int(x) raise.                                               *)

Cancelled == <<>>

CodeTexts == { <<"1">>, <<" ", "1">>, <<"1", "2">> }

NameTexts == { <<"A", "b">>, <<"b", ",", "7">> }

CourseworkTexts == { <<"2", "0">>, <<"2", "1">>, <<"-", "1">>, <<"x">> }

ExamTexts == { <<"1", "0", "0">>, <<"1", "0", "1">>, <<"-", "1">>, <<"x">> }

\* the four marks typed in one run of the add dialog
AddMarkTexts ==
    { << <<"5">>, <<"5">>, <<"5">>, <<"5", "0">> >>,
      << <<"2", "0">>, <<"0">>, <<"2", "0">>, <<"1", "0", "0">> >>,
      << <<"2", "1">>, <<"0">>, <<"0">>, <<"0">> >>,
      << <<"0">>, <<"0">>, <<"0">>, <<"1", "0", "1">> >>,
      << <<"0">>, <<"x">>, <<"0">>, <<"0">> >> }

QueryTexts == { <<"1">>, <<"a">>, <<" ", "2">>, <<"z">> }

\* _choose_from_list returns an index or None
NoSelection == 0 - 1

Fields == <<"Student Code", "Student Name", "Coursework 1", "Coursework 2",
            "Coursework 3", "Exam">>

RECURSIVE SeqsUpTo(_, _)
SeqsUpTo(S, n) ==
    IF n = 0 THEN { <<>> }
    ELSE SeqsUpTo(S, n - 1) \cup
         { Append(q, x) : q \in SeqsUpTo(S, n - 1), x \in S }

\* data lines of the files found at startup
LineAb  == <<"1", ",", "A", "b", ",", "5", ",", "5", ",", "5", ",", "5", "0">>
LineCd  == <<"1", "2", ",", "C", "d", ",", "2", "0", ",", "2", "0", ",", "2", "0", ",",
             "1", "0", "0">>
LineDup == <<"1", ",", "C", "d", ",", "2", "1", ",", "0", ",", "0", ",", "1", "0", "1">>

\* the files DATA_FILE may be when the application starts: absent, empty,
\* with a header that is no integer, and with zero to three data lines
InitFiles ==
    { NoFile, FileOf(<<>>), FileOf(<< <<"x">> >>) } \cup
    { FileOf(<<IntStr(Len(body))>> \o body) :
        body \in { <<>>, <<LineAb>>, <<LineCd>>, <<LineAb, LineCd>>,
                   <<LineAb, LineDup>>, <<LineCd, LineAb, LineDup>> } }

-----------------------------------------------------------------------------
(* The application *)

Last(op, result, idx) == [op |-> op, result |-> result, idx |-> idx]

\* a mutation of MatchIdx: `query in code or name`, true of every named record
MatchIdxTruthyName(studs, query) ==
    LET Hit(i) == Contains(query, Lower(studs[i].code)) \/ studs[i].name # <<>>
    IN  SelectSeq([i \in 1..Len(studs) |-> i], Hit)

\* a mutation of MatchIdx: the query is looked for in the names only
MatchIdxNameOnly(studs, query) ==
    LET Hit(i) == Contains(query, Lower(studs[i].name))
    IN  SelectSeq([i \in 1..Len(studs) |-> i], Hit)

\* a mutation of MatchIdx: the code and the name are not lower-cased
MatchIdxCaseSensitive(studs, query) ==
    LET Hit(i) == Contains(query, studs[i].code) \/ Contains(query, studs[i].name)
    IN  SelectSeq([i \in 1..Len(studs) |-> i], Hit)

\* [s for s in self.students if query in s["code"].lower() or query in s["name"].lower()]
\* as the list of positions in self.students
MatchIdx(studs, query) ==
    LET Hit(i) == Contains(query, Lower(studs[i].code)) \/
                  Contains(query, Lower(studs[i].name))
    IN  SelectSeq([i \in 1..Len(studs) |-> i], Hit)

Matches(studs, query) ==
    [k \in 1..Len(MatchIdx(studs, query)) |-> studs[MatchIdx(studs, query)[k]]]

\* the record picked among the matches: position in self.students, 0 when
\* the chooser was dismissed
Picked(studs, query, sel) ==
    LET m == MatchIdx(studs, query)
    IN  IF Len(m) > 1
        THEN IF sel = NoSelection THEN 0 ELSE m[sel + 1]
        ELSE m[1]

HasCode(studs, code) == \E i \in 1..Len(studs) : studs[i].code = code

\* StudentManagerApp.__init__: the data store after construction
Init ==
    /\ file \in InitFiles
    /\ students = read_students_from_file(file).records
    /\ display_students = students
    /\ tree = populate_tree(students)
    /\ summary = update_summary(students)
    /\ last = Last("init", read_students_from_file(file).exc, 0)
    /\ steps = 0
    /\ rt_pc = "off"
    /\ rt_file = NoFile
    /\ rt_first = LoadResult("none", "", <<>>, 0)
    /\ rt_second = LoadResult("none", "", <<>>, 0)
    /\ quiz = NewQuiz
    /\ jokes = NoJokesApp
    /\ told = <<>>
    /\ timed = NewTimed

\* a handler that returns early: nothing but the record of the run changes
Return(op, result, idx) ==
    /\ last' = Last(op, result, idx)
    /\ UNCHANGED <<file, students, display_students, tree, summary>>

\* a mutation of Persist: the list is changed but the file is not rewritten
PersistNoWrite(op, result, idx, studs) ==
    /\ last' = Last(op, result, idx)
    /\ students' = studs
    /\ display_students' = studs
    /\ tree' = populate_tree(studs)
    /\ summary' = update_summary(studs)
    /\ file' = file

\* the common tail of add / delete / update: persist, then view_all_records()
Persist(op, result, idx, studs) ==
    /\ last' = Last(op, result, idx)
    /\ students' = studs
    /\ display_students' = studs
    /\ tree' = populate_tree(studs)
    /\ summary' = update_summary(studs)
    /\ file' = write_students_to_file(studs)

InRange(lo, v, hi) == lo <= v /\ v <= hi

\* line 346: the range validation of add_student_prompt
AddRangeOk(c1, c2, c3, exam) ==
    InRange(0, c1, 20) /\ InRange(0, c2, 20) /\ InRange(0, c3, 20) /\
    InRange(0, exam, 100)

\* a mutation of AddCode: the code is kept as typed
AddCodeAsTyped(code_in) == code_in

\* line 328: code = code.strip()
AddCode(code_in) == Strip(code_in)

add_student_prompt(code_in, name_in, marks) ==
    LET code == AddCode(code_in)
        c1 == PyInt(marks[1])
        c2 == PyInt(marks[2])
        c3 == PyInt(marks[3])
        exam == PyInt(marks[4])
    IN  IF code_in = Cancelled
        THEN Return("add", "cancelled", 0)
        ELSE IF HasCode(students, code)
        THEN Return("add", "Duplicate", 0)
        ELSE IF name_in = Cancelled
        THEN Return("add", "cancelled", 0)
        ELSE IF ~(c1.ok /\ c2.ok /\ c3.ok /\ exam.ok)
        THEN Return("add", "Invalid", 0)
        ELSE IF ~AddRangeOk(c1.val, c2.val, c3.val, exam.val)
        THEN Return("add", "Invalid range", 0)
        ELSE Persist("add", "Added", Len(students) + 1,
                     Append(students, Student(code, Strip(name_in), c1.val, c2.val,
                                              c3.val, exam.val)))

\* the name dialog is shown only once the code was accepted, the mark
\* dialogs only once a name was given; a dialog not shown yields no text
NameDialog(code_in) ==
    IF code_in = Cancelled \/ HasCode(students, AddCode(code_in))
    THEN {Cancelled}
    ELSE NameTexts \cup {Cancelled}

MarkDialogs(name_in) ==
    IF name_in = Cancelled
    THEN { <<Cancelled, Cancelled, Cancelled, Cancelled>> }
    ELSE AddMarkTexts

AddStudent ==
    /\ steps < MaxSteps
    /\ steps' = steps + 1
    /\ \E code_in \in CodeTexts \cup {Cancelled} :
         \E name_in \in NameDialog(code_in) :
           \E marks \in MarkDialogs(name_in) :
              add_student_prompt(code_in, name_in, marks)
    /\ UNCHANGED rtVars
    /\ UNCHANGED timedVars
    /\ UNCHANGED jokeVars
    /\ UNCHANGED quizVars

\* what the chooser can return for the matches of a query
Selections(studs, query) ==
    IF Len(MatchIdx(studs, query)) > 1
    THEN {NoSelection} \cup (0..(Len(MatchIdx(studs, query)) - 1))
    ELSE {NoSelection}

\* line 381: [s for s in self.students if s["code"] != to_delete["code"]]
RemoveCode(studs, code) ==
    LET Keep(s) == s.code # code IN SelectSeq(studs, Keep)

delete_student_prompt(q, sel, confirm) ==
    LET query == Lower(Strip(q))
        m == MatchIdx(students, query)
        idx == Picked(students, query, sel)
    IN  IF students = <<>>
        THEN Return("delete", "No data", 0)
        ELSE IF q = Cancelled
        THEN Return("delete", "cancelled", 0)
        ELSE IF m = <<>>
        THEN Return("delete", "No match", 0)
        ELSE IF Len(m) > 1 /\ sel = NoSelection
        THEN Return("delete", "cancelled", 0)
        ELSE IF ~confirm
        THEN Return("delete", "cancelled", idx)
        ELSE Persist("delete", "Deleted", idx,
                     RemoveCode(students, students[idx].code))

\* whether the dialogs of delete / update get as far as a picked student
Picks(q, sel) ==
    /\ students # <<>>
    /\ q # Cancelled
    /\ MatchIdx(students, Lower(Strip(q))) # <<>>
    /\ Len(MatchIdx(students, Lower(Strip(q)))) > 1 => sel # NoSelection

ConfirmDialog(q, sel) == IF Picks(q, sel) THEN BOOLEAN ELSE {FALSE}

DeleteStudent ==
    /\ steps < MaxSteps
    /\ steps' = steps + 1
    /\ \E q \in QueryTexts \cup {Cancelled} :
         \E sel \in Selections(students, Lower(Strip(q))) :
           \E confirm \in ConfirmDialog(q, sel) :
              delete_student_prompt(q, sel, confirm)
    /\ UNCHANGED rtVars
    /\ UNCHANGED timedVars
    /\ UNCHANGED jokeVars
    /\ UNCHANGED quizVars

\* a mutation of CourseworkOk: the upper limit is not checked
CourseworkOkNoUpper(val) == 0 <= val

\* line 435: `0 <= val <= 20`
CourseworkOk(val) == InRange(0, val, 20)

\* line 445: `0 <= val <= 100`
ExamOk(val) == InRange(0, val, 100)

\* line 418: another student already has the code that was typed
CodeTaken(studs, idx, new_code) ==
    \E j \in 1..Len(studs) : studs[j].code = new_code /\ j # idx

\* the texts that can be typed for a field
FieldTexts(field) ==
    CASE field = "Student Code" -> CodeTexts \cup {Cancelled}
      [] field = "Student Name" -> NameTexts \cup {Cancelled}
      [] field = "Exam"         -> ExamTexts \cup {Cancelled}
      [] OTHER                  -> CourseworkTexts \cup {Cancelled}

\* a mutation of FieldKey: every coursework field is stored as c1
FieldKeyAlwaysFirst(field) == "c1"

FieldKey(field) ==
    CASE field = "Coursework 1" -> "c1"
      [] field = "Coursework 2" -> "c2"
      [] field = "Coursework 3" -> "c3"

\* lines 414-448: the edit of one field of the picked student
update_field(idx, field, text) ==
    LET val == PyInt(text)
    IN  IF field = "Student Code"
        THEN IF text = Cancelled
             THEN Return("update", "cancelled", idx)
             ELSE IF CodeTaken(students, idx, text)
             THEN Return("update", "Duplicate", idx)
             ELSE Persist("update", "Updated", idx,
                          [students EXCEPT ![idx].code = Strip(text)])
        ELSE IF field = "Student Name"
        THEN IF text = Cancelled
             THEN Return("update", "cancelled", idx)
             ELSE Persist("update", "Updated", idx,
                          [students EXCEPT ![idx].name = Strip(text)])
        ELSE IF field \in {"Coursework 1", "Coursework 2", "Coursework 3"}
        THEN IF ~val.ok
             THEN Return("update", "Invalid", idx)
             ELSE IF ~CourseworkOk(val.val)
             THEN Return("update", "Invalid range", idx)
             ELSE Persist("update", "Updated", idx,
                          [students EXCEPT ![idx][FieldKey(field)] = val.val])
        ELSE IF ~val.ok
             THEN Return("update", "Invalid", idx)
             ELSE IF ~ExamOk(val.val)
             THEN Return("update", "Invalid range", idx)
             ELSE Persist("update", "Updated", idx,
                          [students EXCEPT ![idx].exam = val.val])

update_student_prompt(q, sel, fsel, text) ==
    LET query == Lower(Strip(q))
        m == MatchIdx(students, query)
        idx == Picked(students, query, sel)
    IN  IF students = <<>>
        THEN Return("update", "No data", 0)
        ELSE IF q = Cancelled
        THEN Return("update", "cancelled", 0)
        ELSE IF m = <<>>
        THEN Return("update", "No match", 0)
        ELSE IF Len(m) > 1 /\ sel = NoSelection
        THEN Return("update", "cancelled", 0)
        ELSE IF fsel = NoSelection
        THEN Return("update", "cancelled", idx)
        ELSE update_field(idx, Fields[fsel + 1], text)

FieldChooser(q, sel) ==
    IF Picks(q, sel) THEN {NoSelection} \cup (0..5) ELSE {NoSelection}

FieldDialog(fsel) ==
    IF fsel = NoSelection THEN {Cancelled} ELSE FieldTexts(Fields[fsel + 1])

UpdateStudent ==
    /\ steps < MaxSteps
    /\ steps' = steps + 1
    /\ \E q \in QueryTexts \cup {Cancelled} :
         \E sel \in Selections(students, Lower(Strip(q))) :
           \E fsel \in FieldChooser(q, sel) :
             \E text \in FieldDialog(fsel) :
                update_student_prompt(q, sel, fsel, text)
    /\ UNCHANGED rtVars
    /\ UNCHANGED timedVars
    /\ UNCHANGED jokeVars
    /\ UNCHANGED quizVars

Next == AddStudent \/ DeleteStudent \/ UpdateStudent

Spec == Init /\ [][Next]_vars

-----------------------------------------------------------------------------
(* The views: the handlers that change what is shown and leave the records   *)
(* and the file alone.                                                       *)

\* a mutation of Show: the list shown replaces the record list
ShowReplacesList(op, result, idx, studs) ==
    /\ last' = Last(op, result, idx)
    /\ display_students' = studs
    /\ tree' = populate_tree(studs)
    /\ summary' = update_summary(studs)
    /\ students' = studs
    /\ UNCHANGED file

\* a view handler that shows a list: populate the tree, update the summary
Show(op, result, idx, studs) ==
    /\ last' = Last(op, result, idx)
    /\ display_students' = studs
    /\ tree' = populate_tree(studs)
    /\ summary' = update_summary(studs)
    /\ UNCHANGED <<file, students>>

\* view_all_records()
view_all_records ==
    Show("view_all", "shown", 0, students)

ViewAll ==
    /\ view_all_records
    /\ UNCHANGED steps
    /\ UNCHANGED rtVars
    /\ UNCHANGED timedVars
    /\ UNCHANGED jokeVars
    /\ UNCHANGED quizVars

\* view_individual_prompt(), given the text typed and the chooser's return
view_individual_prompt(answer, sel) ==
    LET query == Lower(Strip(answer))
        m == MatchIdx(students, query)
    IN  IF answer = Cancelled THEN Return("view", "cancelled", 0)
        ELSE IF m = <<>> THEN Return("view", "No match", 0)
        ELSE IF Picked(students, query, sel) = 0 THEN Return("view", "dismissed", 0)
        ELSE Show("view", "shown", Picked(students, query, sel),
                  << students[Picked(students, query, sel)] >>)

\* the texts typed into the dialog of view_individual_prompt
ViewQueryTexts ==
    { <<"1">>, <<"a", "B">>, <<" ", "b", " ">>, <<"D">>, <<"z">> }

\* the chooser is shown only for a query with several matches
ViewChooser(answer) ==
    IF answer = Cancelled THEN {NoSelection}
    ELSE Selections(students, Lower(Strip(answer)))

ViewIndividual ==
    /\ \E answer \in {Cancelled} \cup ViewQueryTexts :
        \E sel \in ViewChooser(answer) :
            view_individual_prompt(answer, sel)
    /\ UNCHANGED steps
    /\ UNCHANGED rtVars
    /\ UNCHANGED timedVars
    /\ UNCHANGED jokeVars
    /\ UNCHANGED quizVars

\* show_highest()
show_highest ==
    IF students = <<>> THEN Return("highest", "No data", 0)
    ELSE Show("highest", "shown", MaxFrom(students, 2, 1),
              << students[MaxFrom(students, 2, 1)] >>)

ShowHighest ==
    /\ show_highest
    /\ UNCHANGED steps
    /\ UNCHANGED rtVars
    /\ UNCHANGED timedVars
    /\ UNCHANGED jokeVars
    /\ UNCHANGED quizVars

\* show_lowest()
show_lowest ==
    IF students = <<>> THEN Return("lowest", "No data", 0)
    ELSE Show("lowest", "shown", MinFrom(students, 2, 1),
              << students[MinFrom(students, 2, 1)] >>)

ShowLowest ==
    /\ show_lowest
    /\ UNCHANGED steps
    /\ UNCHANGED rtVars
    /\ UNCHANGED timedVars
    /\ UNCHANGED jokeVars
    /\ UNCHANGED quizVars

\* sort_menu(), given the answer to "ascending order?"
sort_menu(ascending) ==
    IF students = <<>> THEN Return("sort", "No data", 0)
    ELSE Show("sort", IF ascending THEN "Ascending" ELSE "Descending", 0,
              Sorted(students, ~ascending))

\* the question is asked only when there are records
SortDialog == IF students = <<>> THEN {TRUE} ELSE BOOLEAN

SortMenu ==
    /\ \E ascending \in SortDialog : sort_menu(ascending)
    /\ UNCHANGED steps
    /\ UNCHANGED rtVars
    /\ UNCHANGED timedVars
    /\ UNCHANGED jokeVars
    /\ UNCHANGED quizVars

\* the data line of a record
ViewLine(code, name, c1, c2, c3, exam) ==
    FormatLine(Student(code, name, c1, c2, c3, exam))

\* data lines of the files the views are run on: totals 0 and 160, the totals
\* on both sides of each grade boundary (63|64, 79|80, 95|96, 111|112), two
\* records of the same total, and marks out of range
ViewLines ==
    { ViewLine(<<"1">>, <<"A", "b">>, 0, 0, 0, 0),
      ViewLine(<<"2">>, <<"a", "B">>, 20, 20, 20, 100),
      ViewLine(<<"3">>, <<"C", "d">>, 20, 20, 20, 3),
      ViewLine(<<"4">>, <<"b">>, 20, 20, 20, 4),
      ViewLine(<<"5">>, <<"D">>, 20, 20, 19, 20),
      ViewLine(<<"6">>, <<"d">>, 20, 20, 20, 20),
      ViewLine(<<"7">>, <<"A">>, 15, 20, 20, 40),
      ViewLine(<<"8">>, <<"a">>, 16, 20, 20, 40),
      ViewLine(<<"9">>, <<"c">>, 11, 20, 20, 60),
      ViewLine(<<"1", "0">>, <<"C">>, 12, 20, 20, 60),
      ViewLine(<<"1", "1">>, <<"B">>, 4, 20, 20, 20),
      ViewLine(<<"1", "2">>, <<"b", "c">>, 20, 20, 20, 200),
      ViewLine(<<"1", "3">>, <<"c", "a">>, 0 - 1, 0, 0, 0) }

ViewFiles ==
    { FileOf(<<IntStr(Len(body))>> \o body) : body \in SeqsUpTo(ViewLines, MaxViewLines) }

\* StudentManagerApp.__init__ on one of the files ViewFiles
InitView ==
    /\ file \in ViewFiles
    /\ students = read_students_from_file(file).records
    /\ display_students = students
    /\ tree = populate_tree(students)
    /\ summary = update_summary(students)
    /\ last = Last("init", read_students_from_file(file).exc, 0)
    /\ steps = 0
    /\ rt_pc = "off"
    /\ rt_file = NoFile
    /\ rt_first = LoadResult("none", "", <<>>, 0)
    /\ rt_second = LoadResult("none", "", <<>>, 0)
    /\ quiz = NewQuiz
    /\ jokes = NoJokesApp
    /\ told = <<>>
    /\ timed = NewTimed

NextView == ViewAll \/ ViewIndividual \/ ShowHighest \/ ShowLowest \/ SortMenu

SpecView == InitView /\ [][NextView]_vars

\* a view handler run as one of the MaxSteps handlers of a run
ViewStep ==
    /\ steps < MaxSteps
    /\ \/ view_all_records
       \/ \E answer \in {Cancelled} \cup ViewQueryTexts :
              \E sel \in ViewChooser(answer) : view_individual_prompt(answer, sel)
       \/ show_highest
       \/ show_lowest
       \/ \E ascending \in SortDialog : sort_menu(ascending)
    /\ steps' = steps + 1
    /\ UNCHANGED rtVars
    /\ UNCHANGED timedVars
    /\ UNCHANGED jokeVars
    /\ UNCHANGED quizVars

\* every handler of the sidebar, on the files found at startup: the runs of
\* at most MaxSteps handlers
NextAll == Next \/ ViewStep

SpecAll == Init /\ [][NextAll]_vars

-----------------------------------------------------------------------------
(* The joke teller started on a jokes file *)

JokeFiles ==
    { NoFile } \cup { FileOf(body) : body \in SeqsUpTo(JokeLines, MaxJokeLines) }

\* main of alexa_jokes.py: AlexaJokesApp(root); the student manager and the
\* quiz are not running
InitJokes ==
    /\ \E f \in JokeFiles : \E shuffled \in Shuffles(load_jokes(f).jokes) :
           jokes = NewJokesApp(f, shuffled)
    /\ told = <<>>
    /\ timed = NewTimed
    /\ quiz = NewQuiz
    /\ file = NoFile
    /\ students = <<>>
    /\ display_students = <<>>
    /\ tree = <<>>
    /\ summary = update_summary(<<>>)
    /\ last = Last("init", "none", 0)
    /\ steps = 0
    /\ rt_pc = "off"
    /\ rt_file = NoFile
    /\ rt_first = NoLoad
    /\ rt_second = NoLoad

NextJokes == TellJoke \/ ShowPunchline \/ NextJoke

SpecJokes == InitJokes /\ [][NextJokes]_vars

-----------------------------------------------------------------------------
(* The timed quiz started *)

\* maths_quiz.py run as a program: displayMenu(), then the Tk main loop
InitTimed ==
    /\ timed = NewTimed
    /\ jokes = NoJokesApp
    /\ told = <<>>
    /\ quiz = NewQuiz
    /\ file = NoFile
    /\ students = <<>>
    /\ display_students = <<>>
    /\ tree = <<>>
    /\ summary = update_summary(<<>>)
    /\ last = Last("init", "none", 0)
    /\ steps = 0
    /\ rt_pc = "off"
    /\ rt_file = NoFile
    /\ rt_first = NoLoad
    /\ rt_second = NoLoad

NextTimed ==
    StartTimed \/ SubmitTimed \/ CountdownTick \/ NextQuestionDue \/ displayMenu

SpecTimed == InitTimed /\ [][NextTimed]_vars

-----------------------------------------------------------------------------
(* Round trip of the record store: load a file, save the records loaded,     *)
(* load again.                                                               *)

RECURSIVE JoinAll(_)
JoinAll(fields) ==
    IF Len(fields) = 1 THEN fields[1]
    ELSE fields[1] \o <<",">> \o JoinAll(Tail(fields))

\* data lines: well formed, padded with blanks, signed and zero-padded marks,
\* marks out of range, a mark that is no integer, too few and too many fields,
\* blank lines, empty fields
RTLines ==
    { JoinAll(<< <<"1">>, <<"A", "b">>, <<"5">>, <<"5">>, <<"5">>, <<"5", "0">> >>),
      JoinAll(<< <<" ", "1", " ">>, <<" ", "b", " ", "c", " ">>, <<" ", "5", " ">>,
                 <<"+", "5">>, <<"0", "7">>, <<"-", "0">> >>),
      JoinAll(<< <<"1">>, <<"A", "b">>, <<"2", "1">>, <<"-", "1">>, <<"0">>,
                 <<"1", "0", "1">> >>),
      JoinAll(<< <<"1">>, <<"A", "b">>, <<"x">>, <<"0">>, <<"0">>, <<"0">> >>),
      JoinAll(<< <<"1">>, <<"A", "b">>, <<"5">>, <<"5">>, <<"5">> >>),
      JoinAll(<< <<"2">>, <<"C">>, <<"1">>, <<"2">>, <<"3">>, <<"4">>, <<"9">> >>),
      <<>>,
      <<" ", " ">>,
      JoinAll(<< <<>>, <<>>, <<"0">>, <<"0">>, <<"0">>, <<"0">> >>),
      JoinAll(<< <<"1">>, <<"A", "b">>, <<"5">>, <<"5">>, <<"5">>, <<>> >>),
      JoinAll(<< <<"1">>, <<"A", "b">>, <<"5">>, <<"5", " ", "5">>, <<"5">>, <<"5">> >>),
      JoinAll(<< <<"1">>, <<"A", "b">>, <<"+">>, <<"0">>, <<"0">>, <<"0">> >>) }

RTHeaders == { <<"2">>, <<" ", "7", " ">>, <<"x">> }

RTFiles ==
    { NoFile, FileOf(<<>>) } \cup
    { FileOf(<<h>> \o body) : h \in RTHeaders, body \in SeqsUpTo(RTLines, MaxRTLines) }

InitRT ==
    /\ rt_file \in RTFiles
    /\ rt_pc = "start"
    /\ rt_first = NoLoad
    /\ rt_second = NoLoad
    /\ quiz = NewQuiz
    /\ jokes = NoJokesApp
    /\ told = <<>>
    /\ timed = NewTimed
    /\ file = NoFile
    /\ students = <<>>
    /\ display_students = <<>>
    /\ tree = <<>>
    /\ summary = update_summary(<<>>)
    /\ last = Last("init", "none", 0)
    /\ steps = 0

\* load(f)
RTLoad ==
    /\ rt_pc = "start"
    /\ rt_first' = read_students_from_file(rt_file)
    /\ rt_pc' = IF rt_first'.exc = "none" THEN "loaded" ELSE "failed"
    /\ UNCHANGED <<rt_file, rt_second>>
    /\ UNCHANGED appVars
    /\ UNCHANGED quizVars
    /\ UNCHANGED timedVars
    /\ UNCHANGED jokeVars

\* save(load(f).records)
RTSave ==
    /\ rt_pc = "loaded"
    /\ rt_file' = write_students_to_file(rt_first.records)
    /\ rt_pc' = "saved"
    /\ UNCHANGED <<rt_first, rt_second>>
    /\ UNCHANGED appVars
    /\ UNCHANGED quizVars
    /\ UNCHANGED timedVars
    /\ UNCHANGED jokeVars

\* load again
RTReload ==
    /\ rt_pc = "saved"
    /\ rt_second' = read_students_from_file(rt_file)
    /\ rt_pc' = "reloaded"
    /\ UNCHANGED <<rt_file, rt_first>>
    /\ UNCHANGED appVars
    /\ UNCHANGED quizVars
    /\ UNCHANGED timedVars
    /\ UNCHANGED jokeVars

NextRT == RTLoad \/ RTSave \/ RTReload

SpecRT == InitRT /\ [][NextRT]_vars

-----------------------------------------------------------------------------
(* Properties *)

\* C3: for every file that load accepts, saving the loaded records and loading
\* again yields the same record list, in the same order.
RoundTripIdentity ==
    rt_pc = "reloaded" =>
        /\ rt_second.exc = "none"
        /\ rt_second.records = rt_first.records

\* a round trip of two records, one with a negative mark, from a file whose
\* header did not state the number of records
RoundTripWitness ==
    /\ rt_pc = "reloaded"
    /\ Len(rt_first.records) = 2
    /\ rt_first.declared = 7
    /\ \E i \in 1..2 : rt_first.records[i].c2 < 0


-----------------------------------------------------------------------------
(* Properties of the application *)

Codes(studs) == { studs[i].code : i \in 1..Len(studs) }

RemoveAt(s, i) == SubSeq(s, 1, i - 1) \o SubSeq(s, i + 1, Len(s))

HasComma(s) == \E i \in 1..Len(s) : s[i] = ","

\* the last handler changed the record list
Mutated == last.result \in {"Added", "Deleted", "Updated"}

\* C1: no two records of the in-memory list have the same code.
CodesUnique ==
    \A i, j \in 1..Len(students) :
        i # j => students[i].code # students[j].code

\* C2 (as claimed): after every successful add, delete or update, loading the
\* data file yields exactly the in-memory record list.
FileMatchesMemory ==
    Mutated =>
        /\ read_students_from_file(file).exc = "none"
        /\ read_students_from_file(file).records = students

\* C2 (amended): after every successful add, delete or update, when no record's
\* code or name contains a comma, loading the data file yields exactly the
\* in-memory record list.
FileMatchesMemoryNoComma ==
    (Mutated /\ \A i \in 1..Len(students) :
                    ~HasComma(students[i].code) /\ ~HasComma(students[i].name)) =>
        /\ read_students_from_file(file).exc = "none"
        /\ read_students_from_file(file).records = students

\* a successful update left two records in the list, none with a comma
FileMatchesMemoryWitness ==
    /\ last.result = "Updated"
    /\ Len(students) = 2
    /\ \A i \in 1..2 : ~HasComma(students[i].code) /\ ~HasComma(students[i].name)
    /\ students[1].c1 # students[1].c2

\* C4: every record of the in-memory list has its coursework marks in 0..20
\* and its exam mark in 0..100.
MarksInRange ==
    \A i \in 1..Len(students) :
        /\ students[i].c1 \in 0..20
        /\ students[i].c2 \in 0..20
        /\ students[i].c3 \in 0..20
        /\ students[i].exam \in 0..100

\* the code of the record a successful add has just appended
AddedCode == students[Len(students)].code

\* C5 (as claimed): after a successful add of a record with code k, the search
\* queried with k returns exactly one match.
AddThenSearchFindsOne ==
    (last.op = "add" /\ last.result = "Added") =>
        Len(Matches(students, Lower(Strip(AddedCode)))) = 1

\* C5 (amended): after a successful add of a record with code k, the search
\* queried with k returns the new record as its last match, and returns exactly
\* one match when no other record's code or name contains k (ignoring case).
AddThenSearchFindsNew ==
    (last.op = "add" /\ last.result = "Added") =>
        LET n == Len(students)
            k == Lower(Strip(AddedCode))
            m == MatchIdx(students, k)
        IN  /\ m # <<>>
            /\ m[Len(m)] = n
            /\ (\A i \in 1..(n - 1) :
                    ~Contains(k, Lower(students[i].code)) /\
                    ~Contains(k, Lower(students[i].name)))
               => Len(m) = 1

\* a successful add after which the search for the new code finds only the
\* new record, although the list holds another record
AddThenSearchWitness ==
    /\ last.op = "add"
    /\ last.result = "Added"
    /\ Len(students) = 2
    /\ MatchIdx(students, Lower(Strip(AddedCode))) = <<2>>

\* C6: a confirmed delete removes exactly one record, the selected one, and
\* leaves the others and their order unchanged.
DeleteRemovesExactlyOne ==
    [][(last'.op = "delete" /\ last'.result = "Deleted") =>
          students' = RemoveAt(students, last'.idx)]_vars

\* C7: a delete whose query matches no record reports "No match" and changes
\* neither the record list nor the data file.
DeleteNoMatchChangesNothing ==
    [][last'.op = "delete" =>
         \A q \in QueryTexts :
           \A sel \in Selections(students, Lower(Strip(q))) :
             \A confirm \in ConfirmDialog(q, sel) :
               ( /\ students # <<>>
                 /\ \A i \in 1..Len(students) :
                       ~Contains(Lower(Strip(q)), Lower(students[i].code)) /\
                       ~Contains(Lower(Strip(q)), Lower(students[i].name))
                 /\ delete_student_prompt(q, sel, confirm) )
               => ( /\ last'.result = "No match"
                    /\ students' = students
                    /\ file' = file )]_vars

\* a delete on a list of two records ended with "No match"
DeleteNoMatchWitness ==
    /\ last.op = "delete"
    /\ last.result = "No match"
    /\ Len(students) = 2
    /\ file.exists

\* the marks typed are four integers, coursework in 0..20 and exam in 0..100
ValidMarks(marks) ==
    /\ \A i \in 1..4 : PyInt(marks[i]).ok
    /\ \A i \in 1..3 : 0 <= PyInt(marks[i]).val /\ PyInt(marks[i]).val <= 20
    /\ 0 <= PyInt(marks[4]).val /\ PyInt(marks[4]).val <= 100

\* C8: add fails with "Duplicate" when the new code is already in the record
\* list, leaving list and file unchanged; otherwise, with valid marks, it
\* appends the new record at the end and leaves the others unchanged.
AddDuplicateOrAppend ==
    [][last'.op = "add" =>
         \A code_in \in CodeTexts :
           \A name_in \in NameDialog(code_in) :
             \A marks \in MarkDialogs(name_in) :
               add_student_prompt(code_in, name_in, marks) =>
                 IF Strip(code_in) \in Codes(students)
                 THEN /\ last'.result = "Duplicate"
                      /\ students' = students
                      /\ file' = file
                 ELSE ValidMarks(marks) =>
                      /\ last'.result = "Added"
                      /\ students' =
                           Append(students,
                                  Student(Strip(code_in), Strip(name_in),
                                          PyInt(marks[1]).val, PyInt(marks[2]).val,
                                          PyInt(marks[3]).val, PyInt(marks[4]).val))]_vars

\* an add on a list of two records was refused as a duplicate
AddDuplicateWitness ==
    /\ last.op = "add"
    /\ last.result = "Duplicate"
    /\ Len(students) = 2
    /\ file.exists

\* C9: an update of the code field (here: in a list whose codes are all
\* different) fails, leaving list and file unchanged, whenever the code that
\* would be stored is the code of another record.
UpdateCodeCollisionRejected ==
    [][(CodesUnique /\ last'.op = "update" /\ last'.idx # 0) =>
         \A text \in CodeTexts :
           ( /\ update_field(last'.idx, "Student Code", text)
             /\ \E j \in 1..Len(students) :
                   j # last'.idx /\ students[j].code = Strip(text) )
           => ( /\ last'.result = "Duplicate"
                /\ students' = students
                /\ file' = file )]_vars

\* C10: an update of a coursework field with an integer outside 0..20, or of
\* the exam field with an integer outside 0..100, fails with "Invalid range" and
\* leaves list and file unchanged; an integer inside the range is stored in
\* that field of the picked record.
UpdateMarkValidated ==
    [][(last'.op = "update" /\ last'.idx # 0) =>
         \A fsel \in 2..5 :
           \A text \in FieldTexts(Fields[fsel + 1]) :
             LET idx == last'.idx
                 typed == PyInt(text)
                 val == typed.val
                 key == <<"c1", "c2", "c3", "exam">>[fsel - 1]
                 top == IF fsel = 5 THEN 100 ELSE 20
             IN  (typed.ok /\ update_field(idx, Fields[fsel + 1], text))
                 => IF 0 <= val /\ val <= top
                    THEN /\ last'.result = "Updated"
                         /\ students' = [students EXCEPT ![idx][key] = val]
                         /\ file' = write_students_to_file(students')
                    ELSE /\ last'.result = "Invalid range"
                         /\ students' = students
                         /\ file' = file]_vars

\* an update on a list of two records was refused as out of range
UpdateMarkWitness ==
    /\ last.op = "update"
    /\ last.result = "Invalid range"
    /\ last.idx = 2
    /\ Len(students) = 2
    /\ file.exists

-----------------------------------------------------------------------------
(* Properties of load and save *)

\* the fields of a data line, blanks around each field dropped
LineFields(ln) == [i \in 1..Len(Split(ln)) |-> Strip(Split(ln)[i])]

IsBlank(ln) == \A i \in 1..Len(ln) : ln[i] = " "

\* a data line of the six fields code,name,c1,c2,c3,exam with integer marks
WellFormedLine(ln) ==
    /\ Len(LineFields(ln)) = 6
    /\ \A i \in 3..6 : PyInt(LineFields(ln)[i]).ok

KeptLines(lines) ==
    SelectSeq(lines, LAMBDA ln : ~IsBlank(ln) /\ WellFormedLine(ln))

\* C11: load skips every data line that has not the six fields
\* code,name,c1,c2,c3,exam or has a mark that is no integer, and returns one
\* record for every other non-blank data line, in file order.
LoadSkipsMalformedLines ==
    rt_pc = "loaded" =>
        LET kept == KeptLines(Tail(rt_file.lines))
        IN  /\ Len(rt_first.records) = Len(kept)
            /\ \A i \in 1..Len(kept) :
                   /\ rt_first.records[i].code = LineFields(kept[i])[1]
                   /\ rt_first.records[i].name = LineFields(kept[i])[2]
                   /\ rt_first.records[i].c1 = PyInt(LineFields(kept[i])[3]).val
                   /\ rt_first.records[i].c2 = PyInt(LineFields(kept[i])[4]).val
                   /\ rt_first.records[i].c3 = PyInt(LineFields(kept[i])[5]).val
                   /\ rt_first.records[i].exam = PyInt(LineFields(kept[i])[6]).val

\* the case of a file in which load is to fail ("none": it is to succeed)
FailCase(f) ==
    IF ~f.exists THEN "FileNotFound"
    ELSE IF f.lines = <<>> THEN "EmptyFile"
    ELSE IF ~PyInt(f.lines[1]).ok THEN "MalformedHeader"
    ELSE "none"

\* one file of each failing case
FailingFiles == { NoFile, FileOf(<<>>), FileOf(<< <<"x">> >>) }

\* C12: load fails exactly when the file is absent, empty, or has a header
\* that is no integer, and the kind of the error raised (the exception class
\* a caller can catch) differs between any two of these three cases.
LoadErrorKindsDistinct ==
    rt_pc \in {"loaded", "failed"} =>
        /\ (rt_first.exc # "none") <=> (FailCase(rt_file) # "none")
        /\ \A g \in FailingFiles :
               FailCase(g) # FailCase(rt_file) =>
                   read_students_from_file(g).exc # rt_first.exc

\* C13: after a save the first line of the file is the number of records of
\* the list, the lines after it are one line per record in list order, and
\* so the header count is the number of record lines of the file.
SaveWritesCountAndLines ==
    Mutated =>
        /\ Len(file.lines) = Len(students) + 1
        /\ PyInt(file.lines[1]) = [ok |-> TRUE, val |-> Len(file.lines) - 1]
        /\ \A i \in 1..Len(students) :
               file.lines[i + 1] =
                   JoinAll(<<students[i].code, students[i].name,
                             IntStr(students[i].c1), IntStr(students[i].c2),
                             IntStr(students[i].c3), IntStr(students[i].exam)>>)

\* a file of a header and two record lines was written
SaveWritesWitness ==
    /\ Mutated
    /\ Len(students) = 2
    /\ file.lines[1] = <<"2">>
    /\ Len(file.lines) = 3

-----------------------------------------------------------------------------
(* Properties of the views *)

SameLetter(a, b) == LowerChar(a) = LowerChar(b)

\* q occurs in text, letters compared without regard to case
ContainsIgnoringCase(q, text) ==
    \E off \in 0..(Len(text) - Len(q)) :
        \A k \in 1..Len(q) : SameLetter(q[k], text[off + k])

ExpectedMatches(studs, q) ==
    SelectSeq(studs, LAMBDA r : ContainsIgnoringCase(q, r.code) \/
                                ContainsIgnoringCase(q, r.name))

\* C14: the code-or-name search finds exactly the records, in list order,
\* whose code or name contains the query (the text typed, blanks around it
\* dropped) as a substring without regard to case: with no such record it
\* reports no match, with one it shows that record, with many it shows the
\* one chosen by its position among them.
SearchReturnsMatches ==
    [][ last'.op = "view" =>
        \A answer \in ViewQueryTexts : \A sel \in ViewChooser(answer) :
            view_individual_prompt(answer, sel) =>
                LET exp == ExpectedMatches(students, Strip(answer))
                IN  /\ exp = <<>> =>
                           last'.result = "No match" /\ UNCHANGED display_students
                    /\ Len(exp) = 1 => display_students' = exp
                    /\ (Len(exp) > 1 /\ sel # NoSelection) =>
                           sel < Len(exp) /\ display_students' = << exp[sel + 1] >>
                    /\ (Len(exp) > 1 /\ sel = NoSelection) =>
                           last'.result = "dismissed" /\ UNCHANGED display_students
      ]_vars

\* a search matched the names "Ab" and "aB" and the second match was chosen
SearchWitness ==
    /\ last.op = "view"
    /\ last.result = "shown"
    /\ last.idx = 2
    /\ Len(students) = 2
    /\ students[1].name = <<"A", "b">>
    /\ students[2].name = <<"a", "B">>
    /\ display_students = << students[2] >>

Total(r) == r.c1 + r.c2 + r.c3 + r.exam

RecordInRange(r) ==
    /\ InRange(0, r.c1, 20)
    /\ InRange(0, r.c2, 20)
    /\ InRange(0, r.c3, 20)
    /\ InRange(0, r.exam, 100)

\* the band table on the percentage
GradeInBand(g, p) ==
    /\ (g = "A") <=> (p.num >= 70 * p.den)
    /\ (g = "B") <=> (p.num >= 60 * p.den /\ p.num < 70 * p.den)
    /\ (g = "C") <=> (p.num >= 50 * p.den /\ p.num < 60 * p.den)
    /\ (g = "D") <=> (p.num >= 40 * p.den /\ p.num < 50 * p.den)
    /\ (g = "F") <=> (p.num < 40 * p.den)

\* the band table on the total c1+c2+c3+exam
GradeOfTotal(g, t) ==
    /\ (g = "A") <=> (t >= 112)
    /\ (g = "B") <=> (96 <= t /\ t < 112)
    /\ (g = "C") <=> (80 <= t /\ t < 96)
    /\ (g = "D") <=> (64 <= t /\ t < 80)
    /\ (g = "F") <=> (t < 64)

\* C15: the grade shown for a record is A for a percentage >= 70, B for
\* >= 60 and < 70, C for >= 50 and < 60, D for >= 40 and < 50, F for < 40;
\* for a record with marks in range this is, on the total t of its marks,
\* A iff t >= 112, B iff 96 <= t < 112, C iff 80 <= t < 96, D iff
\* 64 <= t < 80, F iff t < 64.
GradeFollowsBands ==
    \A i \in 1..Len(tree) :
        /\ tree[i].grade \in {"A", "B", "C", "D", "F"}
        /\ GradeInBand(tree[i].grade, tree[i].pct)
        /\ RecordInRange(display_students[i]) =>
               GradeOfTotal(tree[i].grade, Total(display_students[i]))

\* the rows of a record of total 112 (grade A) and of one of total 111 (B)
GradeWitness ==
    /\ last.op = "view_all"
    /\ Len(tree) = 2
    /\ Total(display_students[1]) = 112 /\ tree[1].grade = "A"
    /\ Total(display_students[2]) = 111 /\ tree[2].grade = "B"

\* C16: for every record of the list the overall percentage is
\* (c1+c2+c3+exam)/160*100 and lies between 0 and 100 inclusive.
PercentageWithinBounds ==
    \A i \in 1..Len(tree) :
        /\ tree[i].pct.num * 160 = Total(display_students[i]) * 100 * tree[i].pct.den
        /\ 0 <= tree[i].pct.num
        /\ tree[i].pct.num <= 100 * tree[i].pct.den

Perms(n) ==
    { p \in [1..n -> 1..n] : \A i, j \in 1..n : i # j => p[i] # p[j] }

PctOf(r) == compute_overall_percentage(r)

\* C17: sorting by percentage shows a permutation of the record list that is
\* non-decreasing in percentage when ascending and non-increasing when
\* descending, and in both directions records of equal percentage keep the
\* order they have in the list.
SortIsStablePermutation ==
    (last.op = "sort" /\ last.result \in {"Ascending", "Descending"}) =>
        /\ Len(display_students) = Len(students)
        /\ \E p \in Perms(Len(students)) :
            /\ \A k \in 1..Len(students) : display_students[k] = students[p[k]]
            /\ \A k, l \in 1..Len(students) :
                k < l =>
                    /\ last.result = "Ascending" =>
                           ~Less(PctOf(display_students[l]), PctOf(display_students[k]))
                    /\ last.result = "Descending" =>
                           ~Less(PctOf(display_students[k]), PctOf(display_students[l]))
                    /\ Total(display_students[k]) = Total(display_students[l]) =>
                           p[k] < p[l]

\* a descending sort of two different records of the same percentage
SortWitness ==
    /\ last.op = "sort"
    /\ last.result = "Descending"
    /\ Len(students) = 2
    /\ students[1] # students[2]
    /\ Total(students[1]) = Total(students[2])
    /\ display_students = students

\* C18: on a list that is not empty, highest (lowest) shows a single record
\* whose percentage is >= (<=) that of every record, and of the records tied
\* at that percentage it is the first in list order.
ExtremumFirstOnTies ==
    last.op \in {"highest", "lowest"} =>
        /\ (last.result = "shown") <=> (students # <<>>)
        /\ last.result = "shown" =>
            /\ Len(display_students) = 1
            /\ \E i \in 1..Len(students) :
                /\ display_students[1] = students[i]
                /\ \A j \in 1..Len(students) :
                       IF last.op = "highest"
                       THEN ~Less(PctOf(students[i]), PctOf(students[j]))
                       ELSE ~Less(PctOf(students[j]), PctOf(students[i]))
                /\ \A j \in 1..(i - 1) :
                       Total(students[j]) # Total(students[i])

\* highest on two different records of the same percentage shows the first
ExtremumWitness ==
    /\ last.op = "highest"
    /\ Len(students) = 2
    /\ students[1] # students[2]
    /\ Total(students[1]) = Total(students[2])
    /\ display_students = << students[1] >>

RECURSIVE SumTotals(_)
SumTotals(studs) ==
    IF studs = <<>> THEN 0 ELSE Total(Head(studs)) + SumTotals(Tail(studs))

\* C19: the summary of the list shown is the "no data" signal when the list
\* is empty, and otherwise the number of its records and the mean of their
\* percentages, that is the sum of their totals / (1.6 * count).
SummaryIsCountAndMean ==
    /\ display_students = <<>> => summary.text = "No student data available."
    /\ display_students # <<>> =>
        /\ summary.text = "Students"
        /\ summary.count = Len(display_students)
        /\ summary.avg.num * 16 * Len(display_students) =
               10 * SumTotals(display_students) * summary.avg.den

\* the summary of two records of different percentages, after a sort
SummaryWitness ==
    /\ last.op = "sort"
    /\ summary.count = 2
    /\ Total(display_students[1]) < Total(display_students[2])
    /\ summary.avg.num * 16 * 2 =
           10 * (Total(display_students[1]) + Total(display_students[2])) * summary.avg.den

-----------------------------------------------------------------------------
(* Properties of the maths quiz *)

\* the answers typed, by what they are
CorrectAnswers ==
    { IntStr(quiz.correct_answer), <<" ">> \o IntStr(quiz.correct_answer) \o <<" ">> }

WrongAnswers == { IntStr(quiz.correct_answer + 1), <<"-", "1">> }

NoAnswers == { <<>>, <<" ">>, <<"x">>, <<"1", ".", "5">> }

SameQuestion ==
    /\ quiz'.current_question = quiz.current_question
    /\ quiz'.num1 = quiz.num1
    /\ quiz'.num2 = quiz.num2
    /\ quiz'.operation = quiz.operation
    /\ quiz'.correct_answer = quiz.correct_answer
    /\ quiz'.screen = "problem"

\* C20: each question allows two attempts: a correct answer adds exactly 10
\* to the score on the first attempt and exactly 5 on the second; a wrong
\* first attempt adds nothing and keeps the same question; a wrong second
\* attempt adds nothing and moves to the next question; an empty or
\* non-integer input changes neither score, attempt flag nor question counter.
TwoAttemptScoring ==
    [][ quiz.screen = "problem" =>
        /\ \A typed \in CorrectAnswers :
               isCorrect(typed) =>
                   quiz'.score = quiz.score + (IF quiz.first_attempt THEN 10 ELSE 5)
        /\ \A typed \in WrongAnswers :
               isCorrect(typed) =>
                   /\ quiz'.score = quiz.score
                   /\ quiz.first_attempt => SameQuestion /\ ~quiz'.first_attempt
                   /\ ~quiz.first_attempt =>
                          quiz'.current_question = quiz.current_question + 1
        /\ \A typed \in NoAnswers :
               isCorrect(typed) =>
                   /\ quiz'.score = quiz.score
                   /\ quiz'.first_attempt = quiz.first_attempt
                   /\ quiz'.current_question = quiz.current_question
      ]_vars

\* the first question was answered wrongly, then correctly: 5 points
TwoAttemptWitness ==
    /\ quiz.message = "Correct! +5 points."
    /\ quiz.score = 5
    /\ quiz.current_question = 1
    /\ quiz.screen = "problem"

\* what holds of the score and the question counter in a state
ScoreWithinCounter ==
    /\ 0 <= quiz.score
    /\ quiz.score <= 10 * quiz.current_question
    /\ 10 * quiz.current_question <= 100
    /\ quiz.score % 5 = 0
    /\ quiz.screen = "results" => quiz.current_question = 10
    /\ quiz.screen = "problem" => quiz.current_question < 10

\* C27: in every reachable state 0 <= score <= 10 * current_question <= 100
\* and the score is a multiple of 5; the results screen is shown exactly when
\* current_question reaches 10, one question at a time, each question ended
\* by a correct answer or a second wrong answer; starting a new quiz sets
\* score and question counter to 0.
QuizScoreInvariant ==
    /\ []ScoreWithinCounter
    /\ [][ /\ (quiz'.screen = "results" /\ quiz.screen # "results") <=>
                  (quiz'.current_question = 10 /\ quiz.current_question = 9)
           /\ quiz'.current_question # quiz.current_question =>
                  \/ /\ quiz'.current_question = quiz.current_question + 1
                     /\ quiz.screen = "problem"
                     /\ quiz'.message \in {"Correct! +10 points.", "Correct! +5 points.",
                                          "Wrong again!"}
                  \/ /\ quiz'.current_question = 0
                     /\ quiz.screen \in {"menu", "results"}
           /\ (quiz.screen \in {"menu", "results"} /\ quiz'.screen = "problem") =>
                  quiz'.score = 0 /\ quiz'.current_question = 0
         ]_vars

\* a new quiz was started after a quiz that ended with a correct answer
QuizRestartWitness ==
    /\ quiz.screen = "problem"
    /\ quiz.message = "Correct! +10 points."
    /\ quiz.current_question = 0
    /\ quiz.score = 0

-----------------------------------------------------------------------------
(* Frame properties of the student manager *)

\* the lines written for a list of records
LinesOf(studs) ==
    [i \in 1..Len(studs) |->
        JoinAll(<<studs[i].code, studs[i].name, IntStr(studs[i].c1),
                  IntStr(studs[i].c2), IntStr(studs[i].c3), IntStr(studs[i].exam)>>)]

RecordKeys == <<"code", "name", "c1", "c2", "c3", "exam">>

\* the value typed for the field at position k of the field chooser
TypedValue(k, text) == IF k <= 2 THEN Strip(text) ELSE PyInt(text).val

\* C26: a successful update changes exactly the chosen field of the chosen
\* record: every other field of that record, every other record, the number
\* of records and their order are unchanged, and the changed list is the
\* list that is saved and shown.
UpdateChangesOneField ==
    [][ (last'.op = "update" /\ last'.result = "Updated") =>
        /\ Len(students') = Len(students)
        /\ last'.idx \in 1..Len(students)
        /\ \A i \in 1..Len(students) : i # last'.idx => students'[i] = students[i]
        /\ \A fsel \in 0..5 : \A text \in FieldTexts(Fields[fsel + 1]) :
               update_field(last'.idx, Fields[fsel + 1], text) =>
                   /\ students'[last'.idx][RecordKeys[fsel + 1]] =
                          TypedValue(fsel + 1, text)
                   /\ \A k \in 1..6 : k # fsel + 1 =>
                          students'[last'.idx][RecordKeys[k]] =
                              students[last'.idx][RecordKeys[k]]
        /\ file'.exists
        /\ file'.lines = <<IntStr(Len(students'))>> \o LinesOf(students')
        /\ display_students' = students'
      ]_vars

\* coursework 2 of the second of two records was updated
UpdateOneFieldWitness ==
    /\ last.op = "update"
    /\ last.result = "Updated"
    /\ last.idx = 2
    /\ Len(students) = 2
    /\ students[2].c2 # students[2].c1
    /\ students[2].c2 # students[2].c3

\* the handler just run was an add, a delete or an update that went through
Succeeded ==
    \/ last.op = "add" /\ last.result = "Added"
    \/ last.op = "delete" /\ last.result = "Deleted"
    \/ last.op = "update" /\ last.result = "Updated"

\* C25: the data file is written only by a successful add, a confirmed
\* delete or a successful update: the views (all, individual, highest,
\* lowest, sort) and every cancelled or rejected add, delete or update leave
\* the record list, contents and order, and the data file unchanged; after a
\* failed startup load the list is empty and the file is as it was, absent,
\* empty or with a header that is no integer.
OnlySuccessfulEditsWrite ==
    /\ (last.op = "init" /\ last.result # "none") =>
           students = <<>> /\ FailCase(file) # "none"
    /\ [][ ~Succeeded' => UNCHANGED <<file, students>> ]_vars

\* a descending sort after another handler: the list shown is reordered, the
\* record list and the file are as loaded
ViewsLeaveDataWitness ==
    /\ last.op = "sort"
    /\ last.result = "Descending"
    /\ steps = 2
    /\ Len(students) = 2
    /\ display_students = Reverse(students)
    /\ display_students # students
    /\ file.lines = <<IntStr(2)>> \o LinesOf(students)

-----------------------------------------------------------------------------
(* The joke teller *)

\* how often the joke x occurs in the sequence seq
Occurrences(seq, x) == Cardinality({ i \in DOMAIN seq : seq[i] = x })

\* the k-th cycle of selections: N = Len(all_jokes) consecutive selections
\* from selection k * N + 1 on, or the ones made so far
CycleOf(k) ==
    LET N == Len(jokes.all_jokes)
        upto == IF (k + 1) * N <= Len(told) THEN (k + 1) * N ELSE Len(told)
    IN  SubSeq(told, k * N + 1, upto)

\* in every cycle no joke is told more often than it was loaded, and a
\* complete cycle tells every loaded joke as often as it was loaded
CyclesHaveNoRepeats ==
    LET N == Len(jokes.all_jokes) IN
    told # <<>> =>
        /\ N > 0
        /\ \A k \in 0..((Len(told) - 1) \div N) :
               \A i \in 1..N :
                   LET x == jokes.all_jokes[i] IN
                   /\ Occurrences(CycleOf(k), x) <= Occurrences(jokes.all_jokes, x)
                   /\ Len(CycleOf(k)) = N =>
                          Occurrences(CycleOf(k), x) = Occurrences(jokes.all_jokes, x)
        /\ \A n \in 1..Len(told) : \E i \in 1..N : told[n] = jokes.all_jokes[i]

\* C23: from load on, every cycle of N = len(all_jokes) consecutive
\* selections returns every loaded joke exactly once (a joke is never
\* repeated inside a cycle), and a selection refills the pool only when the
\* pool is empty
NoRepeatsUntilExhausted ==
    /\ []CyclesHaveNoRepeats
    /\ [][ told' # told =>
             /\ Len(told') = Len(told) + 1
             /\ IF jokes.remaining = <<>>
                THEN Len(jokes'.remaining) = Len(jokes.all_jokes) - 1
                ELSE /\ told'[Len(told')] = jokes.remaining[Len(jokes.remaining)]
                     /\ jokes'.remaining =
                            SubSeq(jokes.remaining, 1, Len(jokes.remaining) - 1) ]_vars

\* two jokes are loaded and two cycles were told, the second cycle starting
\* with the joke the first one ended with
SecondCycleWitness ==
    /\ Len(jokes.all_jokes) = 2
    /\ jokes.all_jokes[1] # jokes.all_jokes[2]
    /\ Len(told) = 4
    /\ told[2] = told[3]
    /\ jokes.remaining = <<>>

\* load_jokes fails on the file the app was started on
LoadJokesFails == load_jokes(jokes.jokes_file).exc # "none"

\* C24: whenever load_jokes fails (no file, or a file with no valid
\* setup?punchline line) the app keeps running with the tell, next and
\* punchline buttons disabled
JokeLoadFailureIsSafe ==
    (jokes.state # "off" /\ LoadJokesFails) =>
        /\ jokes.state = "running"
        /\ jokes.tell_btn = "disabled"
        /\ jokes.next_btn = "disabled"
        /\ jokes.punch_btn = "disabled"

-----------------------------------------------------------------------------
(* The timed quiz *)

\* C21: a quiz presents exactly 10 questions: for every interleaving of
\* submit clicks, countdown ticks and next_question callbacks the counter
\* advances once per question (at most one next_question callback is
\* pending for the question shown), it never passes 10, and the results
\* are shown once, when it reaches 10, with no advance left to run
CounterAdvancesOncePerQuestion ==
    /\ Len(timed.pending) <= 1
    /\ timed.current_q <= QUIZ_LENGTH
    /\ timed.screen = "problem" => timed.current_q < QUIZ_LENGTH
    /\ timed.screen = "results" =>
           timed.current_q = QUIZ_LENGTH /\ timed.pending = <<>>

\* C22: the score is awarded at most once per question, 10 points at most,
\* for every interleaving of submit clicks and timer callbacks: it never
\* exceeds 10 times the number of questions presented so far, and the score
\* shown as score/100 never exceeds 100
ScoreAwardedOncePerQuestion ==
    /\ timed.score <= 10 * (timed.current_q + 1)
    /\ timed.score <= 10 * QUIZ_LENGTH

====
